---- MODULE Spec2Model ----
(***************************************************************************)
(* The PE import-directory parser of saferwall (package pe): the walker    *)
(* parseImportDirectory, the thunk-table readers getImportTable32/64 and   *)
(* the resolvers parseImports32/64, as a state machine over one file       *)
(* image; and the message handler of the orchestrator service              *)
(* (Service.HandleMessage), as a second state machine over one message.    *)
(*                                                                         *)
(* Unsigned machine integers are kept at their width.  A uint32 is a       *)
(* little-endian sequence of two 16-bit limbs <<lo, hi>>, a uint64 one of  *)
(* four limbs, so that every wrap-around of the Go code is computed        *)
(* exactly.  File offsets and lengths that are known to be small are       *)
(* plain naturals.  The file buffer is addressed in bytes at even          *)
(* offsets; one limb is the little-endian 16-bit unit at such an offset.   *)
(***************************************************************************)
EXTENDS Integers, Sequences, FiniteSets, TLC

(* ------------------------------------------------------------------ *)
(* Fixed-width unsigned words                                          *)
(* ------------------------------------------------------------------ *)

Limb == 2^16

HalfLimb == 2^15

\* The uint32 with value n, for a natural n below 2^31.
U32(n) == <<n % Limb, n \div Limb>>

\* uint32 addition and subtraction, modulo 2^32.
Add32(a, b) ==
    LET lo == a[1] + b[1]
    IN  <<lo % Limb, (a[2] + b[2] + (lo \div Limb)) % Limb>>

Sub32(a, b) ==
    LET borrow == IF a[1] < b[1] THEN 1 ELSE 0
    IN  <<(a[1] + Limb - b[1]) % Limb, (a[2] + Limb - b[2] - borrow) % Limb>>

\* Unsigned comparison of two words of the same width.
WLt(a, b) ==
    \E i \in 1..Len(a) :
        /\ a[i] < b[i]
        /\ \A j \in (i + 1)..Len(a) : a[j] = b[j]

WLe(a, b) == a = b \/ WLt(a, b)

IsZero(w) == \A i \in 1..Len(w) : w[i] = 0

\* uint64(x) of a uint32 and uint32(x) of a uint64.
Ext64(w) == <<w[1], w[2], 0, 0>>

Trunc32(w) == <<w[1], w[2]>>

\* The natural number a uint32 below 2^31 stands for.
ToNat(w) == w[2] * Limb + w[1]

Fits31(w) == w[2] < HalfLimb

Max(a, b) == IF WLt(a, b) THEN b ELSE a

(* ------------------------------------------------------------------ *)
(* Program constants                                                   *)
(* ------------------------------------------------------------------ *)

maxRepeatedAddresses == 16

maxAddressSpread == 134217728

maxInvalidNames == 1000

descriptorSize == 20

invalidName == "*invalid*"

errNil == "nil"

errBogus == "bogus data found in imports"

errSpread == "data addresses too spread out"

errBeyond == "beyond"

errDamaged == "Damaged Import Table information. ILT and/or IAT appear to be broken"

errMissing == "Must have either an ordinal or a name in an import"

errTooMany == "Too many invalid names, aborting parsing"

errGetData == "data at RVA can't be fetched"

errEOF == "unexpected EOF"

\* thunk.AddressOfData & imageOrdinalFlag32/64 > 0: the top bit of the word.
OrdinalFlag(thunk) == thunk[Len(thunk)] >= HalfLimb

\* thunk.AddressOfData & 0x7fffffff, the mask both readers apply: the low 31
\* bits, whatever the width of the word.
And7fffffff(thunk) == (thunk[2] % HalfLimb) * Limb + thunk[1]

\* thunk.AddressOfData & 0xffff after conversion to uint32.
And0xffff(thunk) == thunk[1]

(* ------------------------------------------------------------------ *)
(* The file image                                                      *)
(* ------------------------------------------------------------------ *)

\* One 16-bit unit of pe.data at the even byte offset o: the explicitly
\* placed cells, a run of one repeated word, zero elsewhere.
Half(im, o) ==
    IF o \in DOMAIN im.mem THEN im.mem[o]
    ELSE IF im.fillFrom <= o /\ o < im.fillTo
         THEN im.fillWord[(((o - im.fillFrom) \div 2) % Len(im.fillWord)) + 1]
         ELSE 0

\* binary.Read of n limbs, little endian, at byte offset o.
ReadWord(im, o, n) == [i \in 1..n |-> Half(im, o + 2 * (i - 1))]

\* The section lookup of the container: an RVA inside the one section maps
\* to its raw offset, any other RVA maps to itself.
getOffsetFromRva(im, rva) ==
    IF WLe(im.sectVA, rva) /\ WLt(Sub32(rva, im.sectVA), U32(im.len))
    THEN Sub32(rva, im.sectVA)
    ELSE rva

\* pe.data[lo : lo+size] with uint32 index arithmetic: the slice expression
\* panics unless lo <= hi <= len(pe.data).
SliceOk(im, lo, size) ==
    LET hi == Add32(lo, U32(size))
    IN  WLe(lo, hi) /\ WLe(hi, U32(im.len))

getStringAtRVA(im, rva) ==
    LET off == getOffsetFromRva(im, rva)
    IN  IF Fits31(off) /\ ToNat(off) \in DOMAIN im.names
        THEN im.names[ToNat(off)]
        ELSE ""

getDataOk(im, rva, length) ==
    LET off == getOffsetFromRva(im, rva)
    IN  WLe(off, Add32(off, U32(length))) /\ WLe(Add32(off, U32(length)), U32(im.len))

getData(im, rva) == Half(im, ToNat(getOffsetFromRva(im, rva)))

ValidFunctionNames == {"CreateFileA", "ExitProcess"}

ValidDosFilenames == {"kernel32.dll", "user32.dll"}

IsValidFunctionName(name) == name \in ValidFunctionNames

IsValidDosFilename(name) == name \in ValidDosFilenames

(* ------------------------------------------------------------------ *)
(* State                                                               *)
(* ------------------------------------------------------------------ *)

VARIABLES
    img,                \* the file: pe.data, pe.Is64, ImageBase, the section, the directory
    pc,                 \* where the parse stands
    rva,                \* parseImportDirectory: the descriptor cursor
    fileOffset,         \* parseImportDirectory: offset of the descriptor just read
    importDesc,         \* parseImportDirectory: the descriptor just read
    maxLen,             \* parseImportDirectory: the bound handed to the readers
    thunkRva,           \* getImportTable: rva
    startRVA,           \* getImportTable: startRVA
    retVal,             \* getImportTable: retVal
    addressesOfData,    \* getImportTable: addressesOfData
    repeatedAddress,    \* getImportTable: repeatedAddress
    minAddressOfData,   \* getImportTable: minAddressOfData
    maxAddressOfData,   \* getImportTable: maxAddressOfData
    ilt,                \* parseImports: ilt
    iat,                \* parseImports: iat
    idx,                \* parseImports: idx
    numInvalid,         \* parseImports: numInvalid
    importedFunctions,  \* parseImports: importedFunctions
    Imports,            \* pe.Imports
    err,                \* the error parseImportDirectory returns
    Body,               \* HandleMessage: m.Body, the sha256 of the sample
    stage,              \* HandleMessage: where the handler stands
    storedType,         \* the type of the object the storage holds under Body
    files,              \* the files of the shared volume
    downloaded,         \* the files of the shared volume the download has filled
    published,          \* the messages on the bus, as <<topic, body>>, in order
    mtype,              \* HandleMessage: mtype.String(), "" before the detection
    ret                 \* what HandleMessage returned

handlerVars == <<Body, stage, storedType, files, downloaded, published, mtype, ret>>

walkerVars == <<rva, fileOffset, importDesc, maxLen>>

readerVars == <<thunkRva, startRVA, retVal, addressesOfData, repeatedAddress,
                minAddressOfData, maxAddressOfData>>

resolverVars == <<idx, numInvalid, importedFunctions>>

parserVars == <<img, pc, walkerVars, readerVars, ilt, iat, resolverVars, Imports, err>>

vars == <<parserVars, handlerVars>>

\* Thunk width of the image: limbs per entry and bytes per entry.
thunkLimbs == IF img.is64 THEN 4 ELSE 2

thunkSize == 2 * thunkLimbs

\* A uint32 at the width of a thunk entry (uint64(x) in the 64-bit code).
Widen(w) == IF img.is64 THEN Ext64(w) ELSE w

zeroDescriptor ==
    [OriginalFirstThunk |-> U32(0), TimeDateStamp |-> U32(0), ForwarderChain |-> U32(0),
     Name |-> U32(0), FirstThunk |-> U32(0)]

\* binary.Read of an ImageImportDescriptor: five little-endian uint32.
ReadDescriptorAt(im, off) ==
    [OriginalFirstThunk |-> ReadWord(im, off, 2),
     TimeDateStamp      |-> ReadWord(im, off + 4, 2),
     ForwarderChain     |-> ReadWord(im, off + 8, 2),
     Name               |-> ReadWord(im, off + 12, 2),
     FirstThunk         |-> ReadWord(im, off + 16, 2)]

(* ------------------------------------------------------------------ *)
(* getImportTable32 / getImportTable64                                 *)
(* ------------------------------------------------------------------ *)

\* The set-up of one table read at RVA start.
StartRead(start) ==
    /\ thunkRva' = start
    /\ startRVA' = start
    /\ retVal' = <<>>
    /\ addressesOfData' = {}
    /\ repeatedAddress' = 0
    /\ minAddressOfData' = <<Limb - 1, Limb - 1>>
    /\ maxAddressOfData' = U32(0)

\* The reader returns table without an error: to parseImports, which reads
\* the address table next or goes on to resolve.
FinishRead(table) ==
    IF pc = "ilt"
    THEN /\ ilt' = table
         /\ StartRead(importDesc.FirstThunk)
         /\ pc' = "iat"
         /\ UNCHANGED <<iat, err>>
    ELSE /\ iat' = table
         /\ pc' = "select"
         /\ UNCHANGED <<ilt, err, readerVars>>

\* The reader returns an error, which parseImports and the walker hand on.
FailRead(e) ==
    /\ pc' = "return"
    /\ err' = e
    /\ UNCHANGED <<ilt, iat, readerVars>>

PanicRead ==
    /\ pc' = "panic"
    /\ UNCHANGED <<ilt, iat, err, readerVars>>

\* rva >= startRVA+maxLen
BeyondBounds == WLe(Add32(startRVA, maxLen), thunkRva)

\* repeatedAddress >= maxAddressSpread
TooManyRepeats == repeatedAddress >= maxAddressSpread

\* maxAddressOfData-minAddressOfData > maxAddressSpread
TooSpread == WLt(U32(maxAddressSpread), Sub32(maxAddressOfData, minAddressOfData))

\* thunk.AddressOfData >= startRVA && thunk.AddressOfData <= rva
Overlaps(thunk) == WLe(Widen(startRVA), thunk) /\ WLe(thunk, Widen(thunkRva))

\* thunk.AddressOfData&0x7fffffff > 0xffff
BeyondOrdinal(thunk) == And7fffffff(thunk) > 65535

\* One iteration of the reader's loop.
ThunkStep ==
    /\ pc \in {"ilt", "iat"}
    /\ UNCHANGED <<handlerVars, img, walkerVars, resolverVars, Imports>>
    /\ IF BeyondBounds THEN FinishRead(retVal)
       ELSE IF TooManyRepeats THEN FailRead(errBogus)
       ELSE IF TooSpread THEN FailRead(errSpread)
       ELSE LET offset == getOffsetFromRva(img, thunkRva) IN
            IF ~SliceOk(img, offset, thunkSize) THEN PanicRead
            ELSE LET thunk == ReadWord(img, ToNat(offset), thunkLimbs) IN
                 IF IsZero(thunk) THEN FinishRead(retVal)
                 ELSE IF Overlaps(thunk) THEN FinishRead(retVal)
                 ELSE IF OrdinalFlag(thunk) /\ BeyondOrdinal(thunk) THEN FailRead(errBeyond)
                 ELSE /\ IF OrdinalFlag(thunk)
                         THEN UNCHANGED <<addressesOfData, repeatedAddress>>
                         ELSE IF thunk \in addressesOfData
                              THEN /\ repeatedAddress' = repeatedAddress + 1
                                   /\ UNCHANGED addressesOfData
                              ELSE /\ addressesOfData' = addressesOfData \cup {thunk}
                                   /\ UNCHANGED repeatedAddress
                      /\ retVal' = Append(retVal, thunk)
                      /\ thunkRva' = Add32(thunkRva, U32(thunkSize))
                      /\ UNCHANGED <<pc, ilt, iat, err, startRVA,
                                     minAddressOfData, maxAddressOfData>>

(* ------------------------------------------------------------------ *)
(* parseImports32 / parseImports64                                     *)
(* ------------------------------------------------------------------ *)

\* The table of record: ilt when it has entries, else iat.
table == IF Len(ilt) > 0 THEN ilt ELSE iat

\* SelectTable without the test for two empty tables.
SelectTableUnchecked ==
    /\ pc = "select"
    /\ UNCHANGED <<handlerVars, img, walkerVars, readerVars, ilt, iat, Imports>>
    /\ pc' = "resolve"
    /\ idx' = 0
    /\ numInvalid' = 0
    /\ importedFunctions' = <<>>
    /\ UNCHANGED err

\* The checks and the set-up before the resolver's loop.
SelectTable ==
    /\ pc = "select"
    /\ UNCHANGED <<handlerVars, img, walkerVars, readerVars, ilt, iat, Imports>>
    /\ IF Len(iat) = 0 /\ Len(ilt) = 0
       THEN /\ pc' = "return"
            /\ err' = errDamaged
            /\ UNCHANGED resolverVars
       ELSE /\ pc' = "resolve"
            /\ idx' = 0
            /\ numInvalid' = 0
            /\ importedFunctions' = <<>>
            /\ UNCHANGED err

\* ImportFunction{}: the zero value.
zeroImportFunction ==
    [Name |-> "", Hint |-> 0, Offset |-> U32(0), ByOrdinal |-> FALSE, Ordinal |-> 0,
     Address |-> U32(0), Bound |-> U32(0)]

\* ResolvedName without the validity test.
ResolvedNameUnchecked(im, thunk) == getStringAtRVA(im, Add32(Trunc32(thunk), U32(2)))

\* The name an entry by name resolves to: the string two bytes past its
\* data address, or the sentinel.
ResolvedName(im, thunk) ==
    LET name == getStringAtRVA(im, Add32(Trunc32(thunk), U32(2)))
    IN  IF IsValidFunctionName(name) THEN name ELSE invalidName

\* The fields the loop body sets from table[idx] before any check.
DecodeEntry(im, thunk) ==
    IF OrdinalFlag(thunk)
    THEN [zeroImportFunction EXCEPT !.ByOrdinal = TRUE, !.Ordinal = And0xffff(thunk)]
    ELSE [zeroImportFunction EXCEPT
             !.Hint = getData(im, Trunc32(thunk)),
             !.Name = ResolvedName(im, thunk),
             !.Offset = Trunc32(thunk)]

\* imp.Address = importDesc.FirstThunk + pe.OptionalHeader.ImageBase + (idx * importOffset)
EntryAddress(im, desc, i) ==
    Add32(Add32(desc.FirstThunk, im.imageBase), U32(i * (IF im.is64 THEN 8 ELSE 4)))

\* if numInvalid > 1000 && numInvalid == idx
TooManyInvalid == numInvalid > maxInvalidNames /\ numInvalid = idx

FailResolve(e) ==
    /\ pc' = "return"
    /\ err' = e
    /\ UNCHANGED resolverVars

\* One iteration of the resolver's loop, or its exit.
ResolveStep ==
    /\ pc = "resolve"
    /\ UNCHANGED <<handlerVars, img, walkerVars, readerVars, ilt, iat, Imports>>
    /\ IF idx >= Len(table)
       THEN /\ pc' = "name"
            /\ UNCHANGED <<err, resolverVars>>
       ELSE LET thunk == table[idx + 1] IN
            IF ~OrdinalFlag(thunk) /\ ~getDataOk(img, Trunc32(thunk), 2)
            THEN FailResolve(errGetData)
            ELSE IF Len(iat) > 0 /\ Len(ilt) > 0 /\ idx >= Len(iat)
            THEN /\ pc' = "panic"
                 /\ UNCHANGED <<err, resolverVars>>
            ELSE LET decoded == DecodeEntry(img, thunk)
                     bound == IF Len(iat) > 0 /\ Len(ilt) > 0 /\ ilt[idx + 1] # iat[idx + 1]
                              THEN Trunc32(iat[idx + 1])
                              ELSE U32(0)
                     imp == [decoded EXCEPT !.Address = EntryAddress(img, importDesc, idx),
                                            !.Bound = bound]
                     hasName == imp.Name # ""
                 IN  IF imp.Ordinal = 0 /\ ~hasName THEN FailResolve(errMissing)
                     ELSE IF imp.Name = invalidName
                     THEN IF TooManyInvalid THEN FailResolve(errTooMany)
                          ELSE /\ numInvalid' = numInvalid + 1
                               /\ idx' = idx + 1
                               /\ UNCHANGED <<pc, err, importedFunctions>>
                     ELSE /\ importedFunctions' =
                                IF imp.Ordinal > 0 \/ hasName
                                THEN Append(importedFunctions, imp)
                                ELSE importedFunctions
                          /\ idx' = idx + 1
                          /\ UNCHANGED <<pc, err, numInvalid>>

(* ------------------------------------------------------------------ *)
(* parseImportDirectory                                                *)
(* ------------------------------------------------------------------ *)

\* maxLen as the walker derives it, with the cursor already advanced.
DeriveMaxLen(im, cursor, offset, desc) ==
    IF WLt(desc.OriginalFirstThunk, cursor) \/ WLt(desc.FirstThunk, cursor)
    THEN Max(Sub32(cursor, desc.OriginalFirstThunk), Sub32(cursor, desc.FirstThunk))
    ELSE Sub32(U32(im.len), offset)

\* The loop of the walker from its head to the call of parseImports: read
\* one descriptor, stop at the terminator, else advance and derive maxLen.
ReadDescriptor ==
    /\ pc = "desc"
    /\ UNCHANGED <<handlerVars, img, ilt, iat, resolverVars, Imports>>
    /\ LET offset == getOffsetFromRva(img, rva) IN
       /\ fileOffset' = offset
       /\ IF ~SliceOk(img, offset, img.dirSize)
          THEN /\ pc' = "panic"
               /\ UNCHANGED <<rva, importDesc, maxLen, readerVars, err>>
          ELSE IF img.dirSize < descriptorSize
          THEN /\ pc' = "return"
               /\ err' = errEOF
               /\ UNCHANGED <<rva, importDesc, maxLen, readerVars>>
          ELSE LET desc == ReadDescriptorAt(img, ToNat(offset)) IN
               /\ importDesc' = desc
               /\ IF desc = zeroDescriptor
                  THEN /\ pc' = "return"
                       /\ err' = errNil
                       /\ UNCHANGED <<rva, maxLen, readerVars>>
                  ELSE /\ rva' = Add32(rva, U32(descriptorSize))
                       /\ maxLen' = DeriveMaxLen(img, rva', offset, desc)
                       /\ StartRead(desc.OriginalFirstThunk)
                       /\ pc' = "ilt"
                       /\ UNCHANGED err

\* ModuleName without the continue: a module with an invalid name is
\* appended under the sentinel name.
ModuleNameKeepsInvalid ==
    /\ pc = "name"
    /\ UNCHANGED <<handlerVars, img, walkerVars, readerVars, ilt, iat, resolverVars, err>>
    /\ pc' = "desc"
    /\ LET dllName == getStringAtRVA(img, importDesc.Name) IN
       Imports' = Append(Imports,
            [Offset |-> fileOffset,
             Name |-> IF IsValidDosFilename(dllName) THEN dllName ELSE invalidName,
             Functions |-> importedFunctions, Descriptor |-> importDesc])

\* The rest of the loop body after parseImports returned without an error:
\* the module name, and the append to pe.Imports.
ModuleName ==
    /\ pc = "name"
    /\ UNCHANGED <<handlerVars, img, walkerVars, readerVars, ilt, iat, resolverVars, err>>
    /\ pc' = "desc"
    /\ LET dllName == getStringAtRVA(img, importDesc.Name) IN
       IF ~IsValidDosFilename(dllName)
       THEN UNCHANGED Imports
       ELSE Imports' = Append(Imports,
                [Offset |-> fileOffset, Name |-> dllName,
                 Functions |-> importedFunctions, Descriptor |-> importDesc])

(* ------------------------------------------------------------------ *)
(* Service.HandleMessage                                               *)
(* ------------------------------------------------------------------ *)

errBlank == "body is blank re-enqueue message"

errCreate == "failed creating file"

errDownload == "failed downloading file"

errPublish == "failed to publish message"

errDetect == "failed to detect mimetype"

\* HandleMessage has not returned yet.
retPending == "pending"

typePE == "application/vnd.microsoft.portable-executable"

\* filepath.Join(s.cfg.SharedVolume, sha256)
filePath(sha256) == <<"shared_volume", sha256>>

\* return err
Fail(e) ==
    /\ stage' = "done"
    /\ ret' = e

\* s.pub.Publish(ctx, topic, m.Body) and the test of its error: the message
\* is on the bus and the handler goes on at next, or the publish fails and
\* the handler returns the error.
Publish(topic, next) ==
    \E ok \in BOOLEAN :
        IF ok
        THEN /\ published' = Append(published, <<topic, Body>>)
             /\ stage' = next
             /\ UNCHANGED ret
        ELSE /\ Fail(errPublish)
             /\ UNCHANGED published

\* if len(m.Body) == 0
CheckBody ==
    /\ stage = "body"
    /\ IF Body = "" THEN Fail(errBlank) ELSE stage' = "create" /\ UNCHANGED ret
    /\ UNCHANGED <<parserVars, Body, storedType, files, downloaded, published, mtype>>

\* os.Create(filePath)
CreateFile ==
    /\ stage = "create"
    /\ \E ok \in BOOLEAN :
          IF ok
          THEN /\ files' = files \cup {filePath(Body)}
               /\ downloaded' = downloaded \ {filePath(Body)}
               /\ stage' = "download"
               /\ UNCHANGED ret
          ELSE /\ Fail(errCreate)
               /\ UNCHANGED <<files, downloaded>>
    /\ UNCHANGED <<parserVars, Body, storedType, published, mtype>>

\* s.storage.Download(downloadCtx, s.cfg.Storage.Bucket, sha256, file)
Download ==
    /\ stage = "download"
    /\ \E ok \in BOOLEAN :
          IF ok
          THEN /\ downloaded' = downloaded \cup {filePath(Body)}
               /\ stage' = "multiav"
               /\ UNCHANGED ret
          ELSE /\ Fail(errDownload)
               /\ UNCHANGED downloaded
    /\ UNCHANGED <<parserVars, Body, storedType, files, published, mtype>>

PublishMultiav ==
    /\ stage = "multiav"
    /\ Publish("topic-multiav", "meta")
    /\ UNCHANGED <<parserVars, Body, storedType, files, downloaded, mtype>>

\* PublishMeta going on to the detection whether or not the publish failed.
PublishMetaUnchecked ==
    /\ stage = "meta"
    /\ stage' = "detect"
    /\ \E ok \in BOOLEAN :
          published' = IF ok THEN Append(published, <<"topic-meta", Body>>) ELSE published
    /\ UNCHANGED <<parserVars, Body, storedType, files, downloaded, mtype, ret>>

PublishMeta ==
    /\ stage = "meta"
    /\ Publish("topic-meta", "detect")
    /\ UNCHANGED <<parserVars, Body, storedType, files, downloaded, mtype>>

\* mimetype.DetectFile(filePath): the type of what the download wrote.
DetectFile ==
    /\ stage = "detect"
    /\ \E ok \in BOOLEAN :
          IF ok
          THEN /\ mtype' = storedType
               /\ stage' = "switch"
               /\ UNCHANGED ret
          ELSE /\ Fail(errDetect)
               /\ UNCHANGED mtype
    /\ UNCHANGED <<parserVars, Body, storedType, files, downloaded, published>>

\* The first publish of each case of switch mtype.String().
caseTopic ==
    (typePE :> "topic-pe") @@ ("elf" :> "topic-elf") @@ ("mach-o" :> "topic-mach-o")
    @@ ("pdf" :> "topic-pdf")

\* The switch: the publish of the matching case, none when no case matches.
PublishFormat ==
    /\ stage = "switch"
    /\ IF mtype \in DOMAIN caseTopic
       THEN Publish(caseTopic[mtype], IF mtype = typePE THEN "ml" ELSE "return")
       ELSE /\ stage' = "return"
            /\ UNCHANGED <<published, ret>>
    /\ UNCHANGED <<parserVars, Body, storedType, files, downloaded, mtype>>

PublishML ==
    /\ stage = "ml"
    /\ Publish("topic-ml", "return")
    /\ UNCHANGED <<parserVars, Body, storedType, files, downloaded, mtype>>

\* return nil
ReturnNil ==
    /\ stage = "return"
    /\ stage' = "done"
    /\ ret' = errNil
    /\ UNCHANGED <<parserVars, Body, storedType, files, downloaded, published, mtype>>

(* ------------------------------------------------------------------ *)
(* The images the parse is run on                                      *)
(* ------------------------------------------------------------------ *)

\* Longest explicit thunk table, and most descriptors before the terminator.
MaxTbl == 2

MaxDesc == 2

\* Byte offsets of the pieces of an image.
layout ==
    [tblA |-> 0, tblB |-> 32, tblZ |-> 56,
     hint1 |-> 64, hint2 |-> 72, hintBad |-> 80,
     dll1 |-> 88, dll2 |-> 92, dllBad |-> 96,
     dir |-> 104, tblC |-> 144,
     bigHint1 |-> 8, bigHintBad |-> 16, bigDll |-> 24, bigTblZ |-> 32, bigTbl |-> 40]

sectLow == <<4096, 0>>

sectHigh == <<0, HalfLimb>>

SectionBases == {sectLow, sectHigh}

\* The RVA of byte offset off in an image whose section starts at base.
RvaOf(base, off) == Add32(base, U32(off))

\* An ordinal entry: the flag bit over the value n.
OrdinalWord(is64, n) ==
    IF is64 THEN <<n % Limb, n \div Limb, 0, HalfLimb>>
    ELSE <<n % Limb, HalfLimb + (n \div Limb)>>

AddressWord(is64, w) == IF is64 THEN Ext64(w) ELSE w

ThunkKinds(is64) ==
    {"name1", "name2", "nameBad", "ord4", "ord7", "ordMax", "ordBeyond", "ord0",
     "self", "far"} \cup (IF is64 THEN {"ordHigh"} ELSE {})

\* The entry value each kind stands for.
KindWord(kind, is64, base) ==
    CASE kind = "name1"     -> AddressWord(is64, RvaOf(base, layout.hint1))
      [] kind = "name2"     -> AddressWord(is64, RvaOf(base, layout.hint2))
      [] kind = "nameBad"   -> AddressWord(is64, RvaOf(base, layout.hintBad))
      [] kind = "ord4"      -> OrdinalWord(is64, 4)
      [] kind = "ord7"      -> OrdinalWord(is64, 7)
      [] kind = "ordMax"    -> OrdinalWord(is64, 65535)
      [] kind = "ordBeyond" -> OrdinalWord(is64, 65536)
      [] kind = "ord0"      -> OrdinalWord(is64, 0)
      [] kind = "ordHigh"   -> <<7, 0, 256, HalfLimb>>
      [] kind = "self"      -> AddressWord(is64, RvaOf(base, layout.tblA))
      [] kind = "far"       -> AddressWord(is64, Add32(RvaOf(base, layout.hint1), <<0, 2304>>))

noCells == [o \in {} |-> 0]

\* The cells of word w placed at byte offset off.
Cells(off, w) == [o \in {off + 2 * (i - 1) : i \in 1..Len(w)} |-> w[((o - off) \div 2) + 1]]

RECURSIVE TableCells(_, _, _)
TableCells(off, words, size) ==
    IF words = <<>> THEN noCells
    ELSE Cells(off, Head(words)) @@ TableCells(off + size, Tail(words), size)

DescriptorCells(off, oft, name, ft) ==
    Cells(off, oft) @@ Cells(off + 12, name) @@ Cells(off + 16, ft)

\* All sequences over S of length at most n.
RECURSIVE SeqsUpTo(_, _)
SeqsUpTo(S, n) ==
    IF n = 0 THEN {<<>>}
    ELSE LET shorter == SeqsUpTo(S, n - 1)
         IN  shorter \cup {Append(q, x) : q \in {r \in shorter : Len(r) = n - 1}, x \in S}

imageBase == <<0, 64>>

stdNames ==
    (layout.hint1 + 2 :> "CreateFileA") @@ (layout.hint2 + 2 :> "ExitProcess")
    @@ (layout.hintBad + 2 :> "bad\tname")
    @@ (layout.dll1 :> "kernel32.dll") @@ (layout.dll2 :> "user32.dll")
    @@ (layout.dllBad :> "bad*name")

stdHints == (layout.hint1 :> 1) @@ (layout.hint2 :> 2) @@ (layout.hintBad :> 3)

\* One image: two thunk tables given by their kinds, the descriptors given
\* as <<lookup offset, address offset, name offset>>, a directory of n
\* descriptors; ending says how the file ends after them.
StdImage(is64, base, kindsA, kindsB, descs, ending) ==
    LET size == IF is64 THEN 8 ELSE 4
        words(kinds) == [i \in 1..Len(kinds) |-> KindWord(kinds[i], is64, base)]
        descCells[i \in 0..Len(descs)] ==
            IF i = 0 THEN noCells
            ELSE DescriptorCells(layout.dir + descriptorSize * (i - 1),
                                 RvaOf(base, descs[i][1]), RvaOf(base, descs[i][3]),
                                 RvaOf(base, descs[i][2]))
                 @@ descCells[i - 1]
        n == Len(descs)
    IN  [is64 |-> is64, imageBase |-> imageBase, sectVA |-> base,
         len |-> layout.dir + descriptorSize * (IF ending = "unterminated" THEN n ELSE n + 1),
         mem |-> stdHints @@ TableCells(layout.tblA, words(kindsA), size)
                 @@ TableCells(layout.tblB, words(kindsB), size) @@ descCells[n],
         fillFrom |-> 0, fillTo |-> 0, fillWord |-> <<0>>,
         names |-> stdNames,
         dirRVA |-> RvaOf(base, layout.dir),
         dirSize |-> CASE ending = "whole" -> descriptorSize * (n + 1)
                       [] ending = "short" -> descriptorSize \div 2
                       [] OTHER -> descriptorSize]

\* One module whose lookup table is every table of at most MaxTbl entries;
\* its address table is the same table, an empty one or a one-entry one.
ThunkImages ==
    UNION {{StdImage(is64, base, kindsA, iatChoice[2], <<<<layout.tblA, iatChoice[1], layout.dll1>>>>, "one")
                : base \in SectionBases,
                  kindsA \in SeqsUpTo(ThunkKinds(is64), MaxTbl),
                  iatChoice \in {<<layout.tblA, <<>>>>, <<layout.tblB, <<>>>>,
                                 <<layout.tblB, <<"name2">>>>}}
           : is64 \in BOOLEAN}

DescriptorChoices ==
    {<<oft, ft, dll>> : oft \in {layout.tblA, layout.tblZ},
                        ft \in {layout.tblA, layout.tblB, layout.tblZ},
                        dll \in {layout.dll1, layout.dllBad}}

\* Directories of at most MaxDesc modules over two fixed tables.
WalkImages ==
    {StdImage(is64, sectLow, <<"name1", "ord7">>, <<"name2">>, descs, ending)
        : is64 \in BOOLEAN, descs \in SeqsUpTo(DescriptorChoices, MaxDesc),
          ending \in {"one", "whole", "short", "unterminated"}}

\* One module whose lookup table is count copies of one entry by name.
FloodImage(is64, kind, count) ==
    LET size == IF is64 THEN 8 ELSE 4
        dir == layout.bigTbl + size * (count + 1)
        hint == IF kind = "name1" THEN layout.bigHint1 ELSE layout.bigHintBad
    IN  [is64 |-> is64, imageBase |-> imageBase, sectVA |-> sectLow,
         len |-> dir + 2 * descriptorSize,
         mem |-> (layout.bigHint1 :> 1) @@ (layout.bigHintBad :> 3)
                 @@ DescriptorCells(dir, RvaOf(sectLow, layout.bigTbl),
                                    RvaOf(sectLow, layout.bigDll),
                                    RvaOf(sectLow, layout.bigTblZ)),
         fillFrom |-> layout.bigTbl, fillTo |-> layout.bigTbl + size * count,
         fillWord |-> AddressWord(is64, RvaOf(sectLow, hint)),
         names |-> (layout.bigHint1 + 2 :> "CreateFileA")
                   @@ (layout.bigHintBad + 2 :> "bad\tname")
                   @@ (layout.bigDll :> "kernel32.dll"),
         dirRVA |-> RvaOf(sectLow, dir),
         dirSize |-> descriptorSize]

FloodImages ==
    {FloodImage(is64, kind, count)
        : is64 \in BOOLEAN, kind \in {"name1", "nameBad"},
          count \in {maxRepeatedAddresses, maxRepeatedAddresses + 2,
                     maxInvalidNames + 1, maxInvalidNames + 2}}

\* One module followed by the terminator, with a third table after the
\* directory that runs to the end of the file or ends in a zero entry; the
\* descriptor names it as its lookup table, its address table, or both.
TailImage(is64, kindsC, terminated, oft, ft) ==
    LET size == IF is64 THEN 8 ELSE 4
        std == StdImage(is64, sectLow, <<"name1", "ord7">>, <<"name2">>,
                        <<<<oft, ft, layout.dll1>>>>, "one")
        words == [i \in 1..Len(kindsC) |-> KindWord(kindsC[i], is64, sectLow)]
    IN  [std EXCEPT !.mem = TableCells(layout.tblC, words, size) @@ @,
                    !.len = layout.tblC + size * (Len(kindsC) + (IF terminated THEN 1 ELSE 0))]

TailImages ==
    {TailImage(is64, kindsC, terminated, tables[1], tables[2])
        : is64 \in BOOLEAN, kindsC \in SeqsUpTo({"name1", "ord7"}, MaxTbl),
          terminated \in BOOLEAN,
          tables \in {<<layout.tblC, layout.tblC>>, <<layout.tblA, layout.tblC>>,
                      <<layout.tblC, layout.tblB>>}}

\* One module whose lookup table is the tail of its own descriptor: the
\* fields TimeDateStamp, ForwarderChain, Name and FirstThunk, all non-zero,
\* up to the advanced cursor; its address table starts inside FirstThunk.
BoundImage(is64) ==
    LET std == StdImage(is64, sectLow, <<"name1", "ord7">>, <<"name2">>,
                        <<<<layout.dir + 4, layout.dir + 18, layout.dll1>>>>, "one")
    IN  [std EXCEPT !.mem = Cells(layout.dir + 4, RvaOf(sectLow, layout.hint1))
                            @@ Cells(layout.dir + 8, OrdinalWord(FALSE, 7)) @@ @]

BoundImages == {BoundImage(is64) : is64 \in BOOLEAN}

Images == ThunkImages \cup WalkImages \cup FloodImages \cup TailImages \cup BoundImages

(* ------------------------------------------------------------------ *)
(* The specification                                                   *)
(* ------------------------------------------------------------------ *)

Init ==
    /\ img \in Images
    /\ pc = "desc"
    /\ rva = img.dirRVA
    /\ fileOffset = U32(0)
    /\ importDesc = zeroDescriptor
    /\ maxLen = U32(0)
    /\ thunkRva = U32(0)
    /\ startRVA = U32(0)
    /\ retVal = <<>>
    /\ addressesOfData = {}
    /\ repeatedAddress = 0
    /\ minAddressOfData = U32(0)
    /\ maxAddressOfData = U32(0)
    /\ ilt = <<>>
    /\ iat = <<>>
    /\ idx = 0
    /\ numInvalid = 0
    /\ importedFunctions = <<>>
    /\ Imports = <<>>
    /\ err = errNil
    /\ Body = ""
    /\ stage = "idle"
    /\ storedType = ""
    /\ files = {}
    /\ downloaded = {}
    /\ published = <<>>
    /\ mtype = ""
    /\ ret = retPending

Next == ReadDescriptor \/ ThunkStep \/ SelectTable \/ ResolveStep \/ ModuleName

Spec == Init /\ [][Next]_vars

\* The parse is one sequential computation: a step that can be taken is taken.
FairSpec == Spec /\ WF_vars(Next)

\* The messages and the stored objects the handler is run on.
Bodies == {"", "9f86d081", "e3b0c442"}

MimeTypes == {typePE, "elf", "mach-o", "pdf", "application/x-elf", "text/plain"}

\* One message is handed to HandleMessage; the parser stands still.
HandlerInit ==
    /\ img = BoundImage(FALSE)
    /\ pc = "desc"
    /\ rva = img.dirRVA
    /\ fileOffset = U32(0)
    /\ importDesc = zeroDescriptor
    /\ maxLen = U32(0)
    /\ thunkRva = U32(0)
    /\ startRVA = U32(0)
    /\ retVal = <<>>
    /\ addressesOfData = {}
    /\ repeatedAddress = 0
    /\ minAddressOfData = U32(0)
    /\ maxAddressOfData = U32(0)
    /\ ilt = <<>>
    /\ iat = <<>>
    /\ idx = 0
    /\ numInvalid = 0
    /\ importedFunctions = <<>>
    /\ Imports = <<>>
    /\ err = errNil
    /\ Body \in Bodies
    /\ stage = "body"
    /\ storedType \in MimeTypes
    /\ files = {}
    /\ downloaded = {}
    /\ published = <<>>
    /\ mtype = ""
    /\ ret = retPending

HandlerNext ==
    \/ CheckBody \/ CreateFile \/ Download \/ PublishMultiav \/ PublishMeta
    \/ DetectFile \/ PublishFormat \/ PublishML \/ ReturnNil

HandlerSpec == HandlerInit /\ [][HandlerNext]_vars

(* ------------------------------------------------------------------ *)
(* Properties                                                          *)
(* ------------------------------------------------------------------ *)

inReader == pc \in {"ilt", "iat"}

\* The walk ends, by a return or by a run-time panic of a slice or index
\* expression.
Terminates == <>(pc \in {"return", "panic"})

\* A walker iteration that goes on to the tables advances the cursor by the
\* size of one descriptor, and a reader iteration that accepts an entry
\* advances by the size of one entry.
ForwardProgress ==
    [][/\ (pc = "desc" /\ pc' = "ilt") => rva' = Add32(rva, U32(descriptorSize))
       /\ (inReader /\ pc' = pc) => /\ thunkRva' = Add32(thunkRva, U32(thunkSize))
                                    /\ Len(retVal') = Len(retVal) + 1
                                    /\ Len(retVal') * thunkSize <= img.len]_vars

\* C1: on every image the parse eventually returns, with success or with an
\* error value.
C1_EventuallyReturns == <>(pc = "return")

\* C2: when the walk returns an error, pe.Imports holds no module of that
\* walk.
C2_AllOrNothing == (pc = "return" /\ err # errNil) => Imports = <<>>

\* The entry the reader is about to read, when the read is in bounds.
currentThunk == ReadWord(img, ToNat(getOffsetFromRva(img, thunkRva)), thunkLimbs)

\* An iteration of the reader that gets as far as reading its entry.
readsEntry ==
    /\ inReader
    /\ ~BeyondBounds /\ ~TooManyRepeats /\ ~TooSpread
    /\ SliceOk(img, getOffsetFromRva(img, thunkRva), thunkSize)

\* The reader hands its table back without an error.
readEnds == (pc = "ilt" /\ pc' = "iat") \/ (pc = "iat" /\ pc' = "select")

\* The data addresses of the entries of tbl that carry no ordinal flag.
NonOrdinals(tbl) == {Trunc32(tbl[i]) : i \in {j \in 1..Len(tbl) : ~OrdinalFlag(tbl[j])}}

\* Two data addresses of tbl differ by more than maxAddressSpread.
SpreadExceeds(tbl) ==
    \E a, b \in NonOrdinals(tbl) : WLt(a, b) /\ WLt(U32(maxAddressSpread), Sub32(b, a))

\* Every bit of an entry between its low 16 bits and its flag bit is clear.
PlausibleOrdinal(thunk) ==
    \A i \in 2..Len(thunk) : (IF i = Len(thunk) THEN thunk[i] % HalfLimb ELSE thunk[i]) = 0

\* C3: within the length bound, an iteration that starts with the repeat
\* counter at the ceiling maxRepeatedAddresses fails with the bogus-data
\* error, and that error is raised at the ceiling only.
C3_RepeatCeiling ==
    [][(inReader /\ ~BeyondBounds)
          => /\ repeatedAddress >= maxRepeatedAddresses => (pc' = "return" /\ err' = errBogus)
             /\ (pc' = "return" /\ err' = errBogus) => repeatedAddress >= maxRepeatedAddresses]_vars

\* C4: within the length bound and below the repeat ceiling, an iteration
\* fails with the address-spread error exactly when two data addresses
\* accepted so far differ by more than maxAddressSpread.
C4_SpreadCeiling ==
    [][(inReader /\ ~BeyondBounds /\ repeatedAddress < maxRepeatedAddresses)
          => ((pc' = "return" /\ err' = errSpread) <=> SpreadExceeds(retVal))]_vars

\* C5: an entry with the ordinal flag is accepted exactly when all its
\* other bits form a value of at most 0xFFFF; otherwise the read fails with
\* the implausible-ordinal error.
C5_OrdinalRange ==
    /\ inReader => \A i \in 1..Len(retVal) :
                       OrdinalFlag(retVal[i]) => PlausibleOrdinal(retVal[i])
    /\ (pc = "return" /\ err = errBeyond)
          => (OrdinalFlag(currentThunk) /\ ~PlausibleOrdinal(currentThunk))

\* C6: the resolver never returns a function list after a table of more
\* than maxInvalidNames entries all of which had an invalid name.
C6_TooManyInvalid ==
    ~(pc = "name" /\ numInvalid = Len(table) /\ numInvalid > maxInvalidNames)

\* The entries of the table of record the resolver keeps: ordinals, and
\* names that pass IsValidFunctionName.
keptEntries ==
    {i \in 1..Len(table) :
        \/ OrdinalFlag(table[i])
        \/ IsValidFunctionName(getStringAtRVA(img, Add32(Trunc32(table[i]), U32(2))))}

\* The table index an output record was made from, read off its Address.
indexOf(f) ==
    ToNat(Sub32(Sub32(f.Address, importDesc.FirstThunk), img.imageBase)) \div thunkSize

C8_DamagedAborts ==
    [][/\ (pc = "select" /\ Len(ilt) = 0 /\ Len(iat) = 0)
            => (pc' = "return" /\ err' = errDamaged /\ Imports' = Imports /\ rva' = rva)
       /\ pc # "return"]_vars

C8_Witness ==
    /\ pc = "return"
    /\ err = errDamaged
    /\ Len(ilt) = 0 /\ Len(iat) = 0
    /\ Len(Imports) = 1

\* The descriptors before the cursor, counted from the directory's start.
descriptorsDone == ToNat(Sub32(rva, img.dirRVA)) \div descriptorSize

descriptorOffset(k) == getOffsetFromRva(img, Add32(img.dirRVA, U32(descriptorSize * k)))

descriptorAt(k) == ReadDescriptorAt(img, ToNat(descriptorOffset(k)))

\* The descriptors before the cursor whose module name is a valid file name.
namedDescriptors ==
    {k \in 0..(descriptorsDone - 1) :
        IsValidDosFilename(getStringAtRVA(img, descriptorAt(k).Name))}

\* C9: whenever the walker stands between two descriptors or has returned
\* at the terminator, pe.Imports is exactly the valid-named descriptors
\* before the cursor, in descriptor order, each with its own descriptor,
\* file offset and name, and the last one appended carries the functions
\* the resolver returned for it.
C9_SkipsInvalidModule ==
    (pc = "desc" \/ (pc = "return" /\ err = errNil)) =>
        /\ Len(Imports) = Cardinality(namedDescriptors)
        /\ \A j \in 1..Len(Imports) :
              \E k \in namedDescriptors :
                 /\ Imports[j].Offset = descriptorOffset(k)
                 /\ Imports[j].Descriptor = descriptorAt(k)
                 /\ Imports[j].Name = getStringAtRVA(img, descriptorAt(k).Name)
                 /\ j > 1 => WLt(Imports[j - 1].Offset, Imports[j].Offset)
        /\ (pc = "desc" /\ Len(Imports) > 0 /\ Imports[Len(Imports)].Offset = fileOffset)
              => Imports[Len(Imports)].Functions = importedFunctions

C9_Witness ==
    /\ pc = "return" /\ err = errNil
    /\ descriptorsDone = 2
    /\ Len(Imports) = 1
    /\ Imports[1].Offset = descriptorOffset(1)
    /\ Len(Imports[1].Functions) > 0

\* C10: an entry without the ordinal flag whose data address lies in
\* [startRVA, rva] ends the table without an error, the entries collected
\* so far being returned as they are; an entry with the ordinal flag never
\* ends the table.
C10_SelfOverlap ==
    [][readsEntry =>
          /\ (~OrdinalFlag(currentThunk) /\ Overlaps(currentThunk))
                => (readEnds /\ err' = err
                    /\ (pc = "ilt" => ilt' = retVal) /\ (pc = "iat" => iat' = retVal))
          /\ (OrdinalFlag(currentThunk) /\ ~IsZero(currentThunk)) => ~readEnds]_vars

\* The walker stands at a descriptor that lies wholly inside the buffer and
\* is all-zero, in a directory that holds at least one descriptor.
atTerminator ==
    /\ pc = "desc"
    /\ img.dirSize >= descriptorSize
    /\ SliceOk(img, getOffsetFromRva(img, rva), descriptorSize)
    /\ ReadDescriptorAt(img, ToNat(getOffsetFromRva(img, rva))) = zeroDescriptor

\* C11: at the first all-zero descriptor the walker returns without an
\* error and leaves pe.Imports as it is (empty when that descriptor is the
\* first); no descriptor is read after the return, and no module of
\* pe.Imports carries the all-zero descriptor.
C11_StopsAtTerminator ==
    [][/\ atTerminator => (pc' = "return" /\ err' = errNil /\ Imports' = Imports)
       /\ (atTerminator /\ rva = img.dirRVA) => Imports' = <<>>
       /\ pc = "return" => pc' = "return"
       /\ \A j \in 1..Len(Imports') : Imports'[j].Descriptor # zeroDescriptor]_vars

\* The 20 bytes of the descriptor at the cursor do not lie inside the buffer.
descriptorOutside ==
    /\ pc = "desc"
    /\ ~SliceOk(img, getOffsetFromRva(img, rva), descriptorSize)

\* The reader is about to read an entry whose bytes do not lie inside the
\* buffer.
thunkOutside ==
    /\ inReader
    /\ ~BeyondBounds /\ ~TooManyRepeats /\ ~TooSpread
    /\ ~SliceOk(img, getOffsetFromRva(img, thunkRva), thunkSize)

\* C12: a read of a descriptor or of a thunk entry whose bytes lie partly
\* or wholly outside the buffer makes the walk return an error value, and
\* no step of the walker or of a reader ends in a run-time panic.
C12_ReadsInBounds ==
    [][/\ (descriptorOutside \/ thunkOutside) => (pc' = "return" /\ err' # errNil)
       /\ (pc = "desc" \/ inReader) => pc' # "panic"]_vars

\* An output record is either by ordinal, with a non-zero ordinal and no
\* name, or by name, with a name that is neither empty nor the sentinel.
OrdinalOrName(f) ==
    IF f.ByOrdinal THEN f.Ordinal # 0 /\ f.Name = ""
    ELSE f.Name # "" /\ f.Name # invalidName

\* The resolver stands at an entry that decodes to ordinal 0 and no name.
atEmptyEntry ==
    /\ pc = "resolve"
    /\ idx < Len(table)
    /\ IF OrdinalFlag(table[idx + 1])
       THEN And0xffff(table[idx + 1]) = 0
       ELSE /\ getDataOk(img, Trunc32(table[idx + 1]), 2)
            /\ ResolvedName(img, table[idx + 1]) = ""

\* C13: every record of a function list, the resolver's own and those of
\* pe.Imports, is either by ordinal or by name in the sense of
\* OrdinalOrName; and at an entry that decodes to ordinal 0 and no name the
\* resolver adds no record and the walk returns the missing-name-or-ordinal
\* error.
C13_OrdinalOrName ==
    [][/\ \A j \in 1..Len(importedFunctions') : OrdinalOrName(importedFunctions'[j])
       /\ \A m \in 1..Len(Imports') :
             \A j \in 1..Len(Imports'[m].Functions) : OrdinalOrName(Imports'[m].Functions[j])
       /\ atEmptyEntry => /\ pc' = "return" /\ err' = errMissing
                           /\ importedFunctions' = importedFunctions
                           /\ Imports' = Imports]_vars

\* current_rva - start_rva >= max_length
boundReached == WLe(maxLen, Sub32(thunkRva, startRVA))

\* The entry of the table at startRVA with index i, counted from 1.
entryAt(i) ==
    ReadWord(img, ToNat(getOffsetFromRva(img, Add32(startRVA, U32((i - 1) * thunkSize)))),
             thunkLimbs)

\* The reader hands back what it has collected, without an error.
returnsCollected ==
    /\ readEnds
    /\ err' = err
    /\ pc = "ilt" => ilt' = retVal
    /\ pc = "iat" => iat' = retVal

\* C14: the entries collected are the non-zero entries at startRVA,
\* startRVA + width, ... in order; where neither ceiling has tripped, the
\* reader returns them without an error at the first position whose
\* distance from startRVA has reached maxLen or whose entry is zero, and at
\* no position before it unless the entry read there ends the table (an
\* overlapping address) or fails the read (an implausible ordinal).
C14_ThunkTable ==
    [][(inReader /\ ~TooManyRepeats /\ ~TooSpread) =>
          /\ \A i \in 1..Len(retVal) : retVal[i] = entryAt(i) /\ ~IsZero(retVal[i])
          /\ thunkRva = Add32(startRVA, U32(Len(retVal) * thunkSize))
          /\ boundReached => returnsCollected
          /\ (~boundReached /\ SliceOk(img, getOffsetFromRva(img, thunkRva), thunkSize)) =>
                /\ IsZero(currentThunk) => returnsCollected
                /\ (/\ ~IsZero(currentThunk) /\ ~Overlaps(currentThunk)
                    /\ ~(OrdinalFlag(currentThunk) /\ BeyondOrdinal(currentThunk)))
                      => /\ pc' = pc
                         /\ retVal' = Append(retVal, currentThunk)]_vars

\* The bound of a table at RVA start, the cursor being advanced past the
\* descriptor: the rest of the file from the table's start for a table at or
\* after the cursor, the distance back to the cursor for a table before it.
tableBound(start) ==
    IF WLe(rva, start)
    THEN Sub32(U32(img.len), getOffsetFromRva(img, start))
    ELSE Sub32(rva, start)

\* C15: while a table of a descriptor is read, maxLen is the bound of that
\* table.
C15_TableBound == inReader => maxLen = tableBound(startRVA)

\* The resolver is about to compare ilt[idx] with iat[idx].
comparesEntries ==
    /\ pc = "resolve"
    /\ idx < Len(table)
    /\ OrdinalFlag(table[idx + 1]) \/ getDataOk(img, Trunc32(table[idx + 1]), 2)
    /\ Len(iat) > 0 /\ Len(ilt) > 0

\* C16: the comparison of ilt[idx] with iat[idx] is made only at an index
\* that exists in both tables, and a step of the resolver goes on with the
\* next entry, returns the function list or returns an error: it never
\* ends in an out-of-range index.
C16_IndexInBothTables ==
    [][/\ comparesEntries => (idx < Len(ilt) /\ idx < Len(iat))
       /\ pc = "resolve" => pc' \in {"resolve", "name", "return"}]_vars

\* The topics published so far, in order.
topics == [i \in 1..Len(published) |-> published[i][1]]

\* The topics of a handling in which every step succeeds.
allTopics ==
    <<"topic-multiav", "topic-meta">>
    \o (IF storedType = typePE THEN <<"topic-pe", "topic-ml">>
        ELSE IF storedType \in DOMAIN caseTopic THEN <<caseTopic[storedType]>>
        ELSE <<>>)

IsPrefix(a, b) == Len(a) <= Len(b) /\ \A i \in 1..Len(a) : a[i] = b[i]

\* C17: the effects of HandleMessage come in the order body check, file
\* creation, download, topic-multiav, topic-meta, type detection, the
\* topics of the format (topic-pe then topic-ml for a PE), each only after
\* every earlier one; the handler returns as soon as a step fails, returns
\* nil only after every step, and on an empty body returns an error with no
\* file created and nothing published.
C17_StepOrder ==
    /\ files # {} => Body # ""
    /\ files \subseteq {filePath(Body)}
    /\ downloaded \subseteq files
    /\ published # <<>> => filePath(Body) \in downloaded
    /\ IsPrefix(topics, allTopics)
    /\ \A i \in 1..Len(published) : published[i][2] = Body
    /\ mtype # "" => (mtype = storedType /\ Len(published) >= 2)
    /\ Len(published) > 2 => mtype # ""
    /\ (ret # retPending) <=> (stage = "done")
    /\ ret = errNil => /\ Body # ""
                       /\ filePath(Body) \in downloaded
                       /\ mtype = storedType
                       /\ topics = allTopics
    /\ (ret = errCreate) => (files = {} /\ published = <<>>)
    /\ (ret = errDownload) => (downloaded = {} /\ published = <<>>)
    /\ (ret = errDetect) => (mtype = "" /\ Len(published) = 2)
    /\ (ret = errPublish) => topics # allTopics
    /\ (Body = "" /\ stage = "done") =>
          (ret = errBlank /\ files = {} /\ published = <<>>)

C17_Witness ==
    /\ stage = "done"
    /\ ret = errNil
    /\ topics = <<"topic-multiav", "topic-meta", "topic-pe", "topic-ml">>

(* ------------------------------------------------------------------ *)
(* What holds beside the defects                                       *)
(* ------------------------------------------------------------------ *)

\* Where the slice of the whole directory size taken at the cursor is in
\* range, the walker stops at the all-zero descriptor as C11 says.
TerminatorWithinSlice ==
    [][/\ (atTerminator /\ SliceOk(img, getOffsetFromRva(img, rva), img.dirSize))
             => (pc' = "return" /\ err' = errNil /\ Imports' = Imports)
       /\ (atTerminator /\ rva = img.dirRVA)
             => (pc' = "return" /\ err' = errNil /\ Imports' = <<>>)
       /\ pc = "return" => pc' = "return"
       /\ \A j \in 1..Len(Imports') : Imports'[j].Descriptor # zeroDescriptor]_vars

\* Where the index of the entry exists in the address table, or one table
\* is empty, an entry of ordinal 0 and no name aborts the resolution as C13
\* says; the records are by ordinal or by name throughout.
EmptyEntryWithinIndex ==
    [][/\ \A j \in 1..Len(importedFunctions') : OrdinalOrName(importedFunctions'[j])
       /\ \A m \in 1..Len(Imports') :
             \A j \in 1..Len(Imports'[m].Functions) : OrdinalOrName(Imports'[m].Functions[j])
       /\ (atEmptyEntry /\ ~(Len(iat) > 0 /\ Len(ilt) > 0 /\ idx >= Len(iat)))
             => /\ pc' = "return" /\ err' = errMissing
                /\ importedFunctions' = importedFunctions
                /\ Imports' = Imports]_vars

\* Where startRVA + maxLen does not wrap, the reader stops as C14 says.
ThunkTableWithoutWrap ==
    [][(inReader /\ ~TooManyRepeats /\ ~TooSpread /\ WLe(startRVA, Add32(startRVA, maxLen))) =>
          /\ \A i \in 1..Len(retVal) : retVal[i] = entryAt(i) /\ ~IsZero(retVal[i])
          /\ thunkRva = Add32(startRVA, U32(Len(retVal) * thunkSize))
          /\ boundReached => returnsCollected
          /\ (~boundReached /\ SliceOk(img, getOffsetFromRva(img, thunkRva), thunkSize)) =>
                /\ IsZero(currentThunk) => returnsCollected
                /\ (/\ ~IsZero(currentThunk) /\ ~Overlaps(currentThunk)
                    /\ ~(OrdinalFlag(currentThunk) /\ BeyondOrdinal(currentThunk)))
                      => /\ pc' = pc
                         /\ retVal' = Append(retVal, currentThunk)]_vars

\* The length bound is reached with entries collected.
BoundReachedWithEntries == inReader /\ boundReached /\ BeyondBounds /\ Len(retVal) > 0

\* With both tables of a descriptor before the cursor, maxLen is at least
\* the bound of the table being read, and is that bound when the two tables
\* start at the same RVA.
BoundOfTablesBeforeCursor ==
    (/\ inReader
     /\ WLt(importDesc.OriginalFirstThunk, rva)
     /\ WLt(importDesc.FirstThunk, rva))
        => /\ WLe(tableBound(startRVA), maxLen)
           /\ importDesc.OriginalFirstThunk = importDesc.FirstThunk
                 => maxLen = tableBound(startRVA)

====
